---- MODULE Spec2Model ----
(***************************************************************************)
(* Control plane of SATe's command line driver (src/sate/mainsate.py):     *)
(* run_sate_from_config, finish_sate_execution, killed_handler, and the    *)
(* worker pool / Job interface they drive.                                 *)
(*                                                                         *)
(* The control thread is modelled statement group by statement group; a    *)
(* Python-level signal handler runs in the main thread between two         *)
(* bytecodes, so killed_handler may fire between any two steps while it is *)
(* the installed handler of the delivered signal.                          *)
(*                                                                         *)
(* Lines 315-423 of finish_sate_execution are never reached: line 300      *)
(* calls TransformScore with three arguments while its __init__            *)
(* (src/util/transformscore.py:3) takes two, and line 314 reads            *)
(* man_weights, which is bound only at line 298.                           *)
(***************************************************************************)
EXTENDS Integers, Sequences, FiniteSets, TLC

\* ---------------------------------------------------------------- bounds
MaxLoci == 3
MaxCpus == 2

\* ------------------------------------------------------------- constants
Signals == {"SIGTERM", "SIGABRT", "SIGINT"}
\* the loop of line 246 without its last signal
SigOrder_without_SIGINT == <<"SIGTERM", "SIGABRT">>

SigOrder == <<"SIGTERM", "SIGABRT", "SIGINT">>
Scores == {1, 2}
TransformScoreInitArity == 2
TransformScoreCallArgs == 3

VARIABLES
    user_config,        \* the settings sate_main itself reads
    settings_file,      \* what line 553 finds at the settings file path
    tree_file,          \* what lines 181-193 find at options.treefile
    options,            \* user_config.commandline
    num_cpus,           \* sate_config.num_cpus
    multilocus_dataset, \* sequence of per-locus datasets
    pc,                 \* position of the control thread
    exc,                \* exception propagating in the control thread
    sig_i,              \* index of the install / restore loop
    handlers,           \* signal -> handler currently installed
    prev_signals,       \* list of (sig, prev_handler)
    RunningJobs,        \* the module global _RunningJobs
    jobs,               \* every Job created so far, indexed by identity
    aln_job_list,       \* identities of the InitialAlignment Jobs
    job,                \* identity of the tree-search Job (0: none)
    jobq,               \* scheduler.jobq, FIFO of identities
    put_log,            \* identities in the order jobq.put was called
    loop_i,             \* index of the put / get_results loop
    new_alignment_list,
    got,                \* identities whose get_results() has returned
    first_done,         \* identity of the Job the workers finished first (0: none)
    workers_started,    \* argument start_worker was called with (-1: not yet)
    dirs_existing,      \* temp scopes present on disk
    dirs_created,       \* temp scopes ever created
    remove_calls,       \* scope -> number of remove_dir calls naming it
    kill_called,        \* identities on which kill() was called
    handler_ran,        \* killed_handler has run
    score,
    starting_tree_str,
    man_weights,        \* "unbound" until line 298
    sate_job,           \* the SateJob of line 315: "none", "constructed", "run"
    rs_result           \* outcome of run_sate_from_config

vars == <<user_config, settings_file, tree_file, options, num_cpus, multilocus_dataset, pc, exc, sig_i, handlers,
          prev_signals, RunningJobs, jobs, aln_job_list, job, jobq, put_log,
          loop_i, new_alignment_list, got, first_done, workers_started,
          dirs_existing, dirs_created, remove_calls, kill_called, handler_ran,
          score, starting_tree_str, man_weights, sate_job, rs_result>>

\* ------------------------------------------------------------- data model
Scopes == {"top", "init_aln", "init_tree", "post_tree"}

NoResult == [locus |-> 0, aligned |-> FALSE, src |-> "none", score |-> 0]

InputLocus(i, al) == [locus |-> i, aligned |-> al, src |-> "input", score |-> 0]

\* what the aligner's Job yields for one sequence dataset
AlignerResult(seqs) ==
    [locus |-> seqs.locus, aligned |-> TRUE, src |-> "initalign", score |-> 0]

\* what the tree estimator's Job yields: (score, tree string)
TreeResult(s) == [locus |-> 0, aligned |-> TRUE, src |-> "inittree", score |-> s]

NoJobs == [tag |-> "None", jobs |-> <<>>]
JobList(l) == [tag |-> "list", jobs |-> l]
SingleJob(j) == [tag |-> "job", jobs |-> <<j>>]

Range(s) == {s[i] : i \in 1..Len(s)}

\* the Jobs _RunningJobs refers to
Referenced(r) == Range(r.jobs)

\* what signal.signal returns for the three signals at line 247: None (no
\* handler installed from Python), SIG_DFL, or a callable
PrevHandlerChoices ==
    { [s \in Signals |-> IF s = "SIGINT" THEN "default_int_handler"
                          ELSE IF s = "SIGTERM" THEN "None" ELSE "SIG_DFL"] }

\* n loci, every one aligned or the last one not
Datasets ==
    { [i \in 1..n |-> InputLocus(i, al \/ i < n)] : n \in 1..MaxLoci, al \in BOOLEAN }

OptionSets ==
    [treefile : BOOLEAN, two_phase : BOOLEAN, aligned : BOOLEAN,
     keeptemp : BOOLEAN, keepalignmenttemps : BOOLEAN]

\* values of sate.tree_estimator; 'fasttree' is also what --auto sets (line 87)
TreeEstimators == {"fasttree", "RAxML"}

\* str.upper() on the tree estimator names
Upper(str) ==
    CASE str = "fasttree" -> "FASTTREE"
      [] str = "FASTTREE" -> "FASTTREE"
      [] str = "RAxML" -> "RAXML"
      [] str = "RAXML" -> "RAXML"

\* commandline.auto, commandline.input (None or a path), commandline.exportconfig
\* (None or a path), commandline.raxml_search_after, sate.tree_estimator
\* (raxml_search_after, tree_estimator): the estimator is read by the modelled
\* code only when post-search is asked for, so without post-search one
\* estimator stands for both
PostSearchChoices ==
    {<<FALSE, "fasttree">>} \cup {<<TRUE, te>> : te \in TreeEstimators}

UserConfigs ==
    { [auto |-> a, input |-> i, exportconfig |-> e,
       raxml_search_after |-> p[1], tree_estimator |-> p[2]] :
        a \in BOOLEAN, i \in {"None", "given"}, e \in BOOLEAN,
        p \in PostSearchChoices }

\* what os.path.exists and read_config_filepath find (lines 553-558)
SettingsFileStates == {"ok", "missing", "invalid"}

\* what os.path.exists, open and read_and_encode_splits find (lines 181-193)
TreeFileStates == {"ok", "missing", "unreadable", "malformed", "name_mismatch"}

Init ==
    /\ user_config \in UserConfigs
    /\ settings_file = "unread"
    /\ tree_file = "unread"
    /\ options \in OptionSets
    /\ num_cpus \in 0..MaxCpus
    /\ multilocus_dataset = <<>>
    /\ pc = "sm_config_files"
    /\ exc = "none"
    /\ sig_i = 1
    /\ handlers \in PrevHandlerChoices
    /\ prev_signals = <<>>
    /\ RunningJobs = NoJobs
    /\ jobs = <<>>
    /\ aln_job_list = <<>>
    /\ job = 0
    /\ jobq = <<>>
    /\ put_log = <<>>
    /\ loop_i = 1
    /\ new_alignment_list = <<>>
    /\ got = {}
    /\ first_done = 0
    /\ workers_started = -1
    /\ dirs_existing = {}
    /\ dirs_created = {}
    /\ remove_calls = [d \in Scopes |-> 0]
    /\ kill_called = {}
    /\ handler_ran = FALSE
    /\ score = "unset"
    /\ starting_tree_str = "unset"
    /\ man_weights = "unbound"
    /\ sate_job = "none"
    /\ rs_result = "pending"


\* ------------------------------------------------- exceptions and unwinding
\* statements inside the try of finish_sate_execution (lines 250-423)
TryBody ==
    {"branch", "compose_newick", "config_dict", "create_aln_jobs",
     "set_running_aln", "put_aln", "get_aln", "clear_running_aln",
     "assign_alns", "remove_init_aln", "create_tree_job", "set_running_tree",
     "put_tree", "get_tree", "transform_score"}

\* statements of sate_main before the call of run_sate_from_config
SateMainBody ==
    {"sm_config_files", "sm_auto", "sm_check_raxml", "sm_export", "sm_read_input"}

\* an except clause around the wait of lines 273-275 that lets the run go on
CatchPc_waits_guarded(p) ==
    IF p = "get_aln" THEN "clear_running_aln"
    ELSE IF p \in TryBody THEN "finally_restore"
    ELSE IF p \in {"fse_prologue", "start_worker", "install_signals", "finally_restore"}
         THEN "rs_finally"
         ELSE "terminated"

\* where an exception raised at position p is caught: the finally of
\* finish_sate_execution covers only the try body; an exception raised before
\* the try or inside that finally reaches the finally of run_sate_from_config;
\* one raised there leaves the program
CatchPc(p) ==
    IF p \in TryBody THEN "finally_restore"
    ELSE IF p \in {"fse_prologue", "start_worker", "install_signals", "finally_restore"}
         THEN "rs_finally"
         ELSE "terminated"

Raise(e) ==
    /\ pc' = CatchPc(pc)
    /\ exc' = e
    /\ sig_i' = IF pc \in TryBody THEN 1 ELSE sig_i
    /\ rs_result' = IF CatchPc(pc) = "terminated" /\ pc \notin SateMainBody
                     THEN "raised" ELSE rs_result

Goto(p) ==
    /\ pc' = p
    /\ UNCHANGED <<exc, sig_i, rs_result>>

\* ------------------------------------------------------------ temp scopes
\* TempFS.create_subdir / create_top_level_temp
CreateScope(d) ==
    /\ dirs_existing' = dirs_existing \cup {d}
    /\ dirs_created' = dirs_created \cup {d}
    /\ UNCHANGED remove_calls

\* the scopes nested under d, d included
Subtree(d) == IF d = "top" THEN Scopes ELSE {d}

\* TempFS.remove_dir: recursive deletion
RemoveScope(d) ==
    /\ dirs_existing' = dirs_existing \ Subtree(d)
    /\ remove_calls' = [remove_calls EXCEPT ![d] = @ + 1]
    /\ UNCHANGED dirs_created

NoScopeChange == UNCHANGED <<dirs_existing, dirs_created, remove_calls>>

\* ------------------------------------------------------------- job objects
NewJob(kind, input) ==
    [kind |-> kind, input |-> input, state |-> "pending", result |-> NoResult]

\* Job.kill(): a pending or running Job becomes killed, a terminal one is left
KillJob(jr) ==
    IF jr.state \in {"pending", "running"} THEN [jr EXCEPT !.state = "killed"] ELSE jr

SelectSeq2(s, keep) ==
    LET F[i \in 0..Len(s)] ==
            IF i = 0 THEN <<>>
            ELSE IF s[i] \in keep THEN Append(F[i-1], s[i]) ELSE F[i-1]
    IN F[Len(s)]

\* variables no control step but the named ones touches
jobvars == <<jobs, aln_job_list, job, jobq, put_log>>
resvars == <<new_alignment_list, got, loop_i>>
sigvars == <<handlers, prev_signals, kill_called, handler_ran>>
locals == <<score, starting_tree_str, man_weights, sate_job>>
cfgvars == <<user_config, settings_file, tree_file, options, num_cpus>>

\* variables sate_main leaves alone before it calls run_sate_from_config
runvars == <<multilocus_dataset, RunningJobs, jobvars, resvars, sigvars, locals,
             first_done, workers_started>>

\* ---------------------------------------------------------- sate_main (1)
\* lines 550-561: every settings file named on the command line must exist
\* and parse
SmReadConfigFiles ==
    /\ pc = "sm_config_files"
    /\ \E st \in SettingsFileStates :
         /\ settings_file' = st
         /\ IF st = "ok" THEN Goto("sm_auto") ELSE Raise("Exception")
    /\ NoScopeChange
    /\ UNCHANGED <<user_config, tree_file, options, num_cpus, runvars>>

\* lines 564-588: with --auto or --untrusted the input is parsed here; --auto
\* then replaces the sate settings by the defaults of
\* get_auto_defaults_from_summary_stats (lines 86-122) and switches itself off
SmAutoDefaults ==
    /\ pc = "sm_auto"
    /\ \E untrusted \in BOOLEAN, parsed \in BOOLEAN, cpu_count \in 1..MaxCpus :
         IF ~(user_config.auto \/ untrusted)
           THEN Goto("sm_check_raxml") /\ UNCHANGED <<user_config, num_cpus>>
           ELSE IF user_config.input = "None"
             THEN Raise("SystemExit") /\ UNCHANGED <<user_config, num_cpus>>
             ELSE IF ~parsed
               THEN Raise("InputReadError") /\ UNCHANGED <<user_config, num_cpus>>
               ELSE /\ Goto("sm_check_raxml")
                    /\ IF user_config.auto
                         THEN /\ user_config' = [user_config EXCEPT
                                      !.auto = FALSE, !.tree_estimator = "fasttree"]
                              /\ num_cpus' = cpu_count
                         ELSE UNCHANGED <<user_config, num_cpus>>
    /\ NoScopeChange
    /\ UNCHANGED <<settings_file, tree_file, options, runvars>>

\* post-search by RAxML asked for while the tree estimator is not FastTree,
\* with the test of the estimator inverted
RaxmlAfterConflict_inverted(c) ==
    c.raxml_search_after /\ Upper(c.tree_estimator) = "FASTTREE"

\* lines 591-592
RaxmlAfterConflict(c) ==
    c.raxml_search_after /\ Upper(c.tree_estimator) # "FASTTREE"

\* lines 591-593
SmCheckRaxml ==
    /\ pc = "sm_check_raxml"
    /\ IF RaxmlAfterConflict(user_config)
         THEN Raise("SystemExit")
         ELSE Goto("sm_export")
    /\ NoScopeChange
    /\ UNCHANGED <<cfgvars, runvars>>

\* lines 595-603: with exportconfig the configuration is saved and sate_main
\* returns (True, None, None)
SmExportConfig ==
    /\ pc = "sm_export"
    /\ IF user_config.exportconfig
         THEN /\ user_config' = [user_config EXCEPT !.exportconfig = FALSE]
              /\ Goto("terminated")
         ELSE /\ Goto("sm_read_input")
              /\ UNCHANGED user_config
    /\ NoScopeChange
    /\ UNCHANGED <<settings_file, tree_file, options, num_cpus, runvars>>

\* lines 605-623
SmReadInput ==
    /\ pc = "sm_read_input"
    /\ IF user_config.input = "None"
         THEN Raise("SystemExit")
         ELSE Goto("rs_create_top")
    /\ NoScopeChange
    /\ UNCHANGED <<cfgvars, runvars>>

\* ------------------------------------------------ run_sate_from_config (1)
\* lines 441-467: read the input, create the top-level temporary directory
RsCreateTop ==
    /\ pc = "rs_create_top"
    /\ multilocus_dataset' \in Datasets
    /\ CreateScope("top")
    /\ Goto("fse_prologue")
    /\ UNCHANGED <<cfgvars, RunningJobs, jobvars, resvars,
                   sigvars, locals, first_done, workers_started>>

\* ----------------------------------------------- finish_sate_execution
\* lines 164-234: read the starting tree, relabel, settle options.aligned
AllAligned(ds) == \A i \in 1..Len(ds) : ds[i].aligned

\* only a tree file that does not exist stopping the run
TreeFileRaises_missing_only(o, st) == o.treefile /\ st = "missing"

\* lines 181-193: the tree file is looked at only when one is named; anything
\* but a readable tree over the names of the sequence data raises
TreeFileRaises(o, st) == o.treefile /\ st # "ok"

\* line 183 raises Exception, open() at line 184 raises IOError,
\* read_and_encode_splits raises KeyError for an unknown name (line 189) or
\* another error for a malformed tree (line 192)
TreeFileException(st) ==
    CASE st = "missing" -> "Exception"
      [] st = "unreadable" -> "IOError"
      [] st = "name_mismatch" -> "KeyError"
      [] st = "malformed" -> "TreeReadError"

FsePrologue ==
    /\ pc = "fse_prologue"
    /\ \E st \in TreeFileStates :
         /\ tree_file' = IF options.treefile THEN st ELSE "None"
         /\ IF TreeFileRaises(options, st)
              THEN /\ Raise(TreeFileException(st))
                   /\ UNCHANGED <<score, options>>
              ELSE /\ score' = IF options.treefile THEN "None" ELSE score
                   /\ options' = [options EXCEPT
                         !.aligned = IF @ THEN AllAligned(multilocus_dataset) ELSE @]
                   /\ Goto("start_worker")
    /\ NoScopeChange
    /\ UNCHANGED <<user_config, settings_file, num_cpus, multilocus_dataset,
                   RunningJobs, jobvars, resvars,
                   sigvars, starting_tree_str, man_weights, sate_job,
                   first_done, workers_started>>

\* lines 239-240
StartWorker ==
    /\ pc = "start_worker"
    /\ workers_started' = num_cpus
    /\ sig_i' = 1
    /\ pc' = "install_signals"
    /\ UNCHANGED <<exc, rs_result>>
    /\ NoScopeChange
    /\ UNCHANGED <<cfgvars, multilocus_dataset, RunningJobs, jobvars, resvars,
                   sigvars, locals, first_done>>

\* lines 245-248, one iteration of the loop: signal.signal returns the handler
\* it replaces
InstallHandler ==
    /\ pc = "install_signals"
    /\ LET sig == SigOrder[sig_i] IN
         /\ prev_signals' = Append(prev_signals, <<sig, handlers[sig]>>)
         /\ handlers' = [handlers EXCEPT ![sig] = "killed_handler"]
    /\ IF sig_i = Len(SigOrder)
         THEN pc' = "branch" /\ sig_i' = 1
         ELSE pc' = "install_signals" /\ sig_i' = sig_i + 1
    /\ UNCHANGED <<exc, rs_result>>
    /\ NoScopeChange
    /\ UNCHANGED <<cfgvars, multilocus_dataset, RunningJobs, jobvars, resvars,
                   kill_called, handler_ran, locals, first_done, workers_started>>

\* line 251
UseStartingTree(o) == (~o.two_phase) /\ o.treefile

\* line 257 with the test of options.aligned inverted
NeedsInitialAlignment_inverted(o) == o.two_phase \/ o.aligned

\* line 257 without the two_phase disjunct
NeedsInitialAlignment_aligned_only(o) == ~o.aligned

\* line 257
NeedsInitialAlignment(o) == o.two_phase \/ ~o.aligned

\* lines 251, 255-258: which phase the try body starts with
TryBranch ==
    /\ pc = "branch"
    /\ IF UseStartingTree(options)
         THEN Goto("compose_newick")
         ELSE IF NeedsInitialAlignment(options)
                THEN Goto("create_aln_jobs")
                ELSE Goto("create_tree_job")
    /\ NoScopeChange
    /\ UNCHANGED <<cfgvars, multilocus_dataset, RunningJobs, jobvars, resvars,
                   sigvars, locals, first_done, workers_started>>

\* line 253
ComposeNewick ==
    /\ pc = "compose_newick"
    /\ starting_tree_str' = "supplied_tree"
    /\ Goto("config_dict")
    /\ NoScopeChange
    /\ UNCHANGED <<cfgvars, multilocus_dataset, RunningJobs, jobvars, resvars,
                   sigvars, score, man_weights, sate_job, first_done,
                   workers_started>>

\* lines 308-314: line 314 reads the local man_weights
ConfigDict ==
    /\ pc = "config_dict"
    /\ IF man_weights = "unbound"
         THEN Raise("UnboundLocalError")
         ELSE Goto("construct_sate_job")
    /\ NoScopeChange
    /\ UNCHANGED <<cfgvars, multilocus_dataset, RunningJobs, jobvars, resvars,
                   sigvars, locals, first_done, workers_started>>


\* --------------------------------------------------- InitialAlignment phase
\* lines 259-269: the init_aln scope and one aligner Job per locus, in the
\* order of the dataset
AlnJobsFor(ds) == [i \in 1..Len(ds) |-> NewJob("align", ds[i])]

CreateAlnJobs ==
    /\ pc = "create_aln_jobs"
    /\ CreateScope("init_aln")
    /\ jobs' = jobs \o AlnJobsFor(multilocus_dataset)
    /\ aln_job_list' = [i \in 1..Len(multilocus_dataset) |-> Len(jobs) + i]
    /\ new_alignment_list' = <<>>
    /\ Goto("set_running_aln")
    /\ UNCHANGED <<cfgvars, multilocus_dataset, RunningJobs, job, jobq, put_log,
                   got, loop_i, sigvars, locals, first_done, workers_started>>

\* _RunningJobs = job, the last Job created, instead of the list
AlnPhaseReference_last_job(l) == SingleJob(l[Len(l)])

\* line 270: what _RunningJobs is set to for the fan-out
AlnPhaseReference(l) == JobList(l)

SetRunningAln ==
    /\ pc = "set_running_aln"
    /\ RunningJobs' = AlnPhaseReference(aln_job_list)
    /\ loop_i' = 1
    /\ Goto("put_aln")
    /\ NoScopeChange
    /\ UNCHANGED <<cfgvars, multilocus_dataset, jobvars, new_alignment_list, got,
                   sigvars, locals, first_done, workers_started>>

\* the put loop stopping one Job early
PutLoopDone_off_by_one(i, n) == i >= n - 1

\* lines 271-272: the loop ends after the i-th of n Jobs was put
PutLoopDone(i, n) == i >= n

PutAln ==
    /\ pc = "put_aln"
    /\ LET j == aln_job_list[loop_i] IN
         /\ jobq' = Append(jobq, j)
         /\ put_log' = Append(put_log, j)
    /\ IF PutLoopDone(loop_i, Len(aln_job_list))
         THEN loop_i' = 1 /\ Goto("get_aln")
         ELSE loop_i' = loop_i + 1 /\ Goto("put_aln")
    /\ NoScopeChange
    /\ UNCHANGED <<cfgvars, multilocus_dataset, RunningJobs, jobs, aln_job_list,
                   job, new_alignment_list, got, sigvars, locals, first_done,
                   workers_started>>

\* collecting whichever Job has completed and was not collected yet
NextJobToWaitFor_as_completed(l, i, js, g) ==
    LET ready == {k \in 1..Len(l) : js[l[k]].state = "completed" /\ l[k] \notin g}
    IN IF ready # {} THEN l[CHOOSE k \in ready : \A m \in ready : k <= m] ELSE l[i]

\* line 273: the Job whose get_results() the i-th iteration calls; the code
\* walks aln_job_list whatever the states js of the Jobs and the set g of
\* those already collected
NextJobToWaitFor(l, i, js, g) == l[i]

\* the get_results loop left after the first result
GetLoopDone_first(i, n) == i >= 1

\* lines 273-275: the loop ends after the i-th of n results was collected
GetLoopDone(i, n) == i >= n

\* lines 274, 297: get_results() of a terminal Job returns the result of a
\* completed Job and raises the failure of any other
GetResultsRaises(jr) == jr.state # "completed"

\* lines 273-275, one iteration: get_results() blocks until the Job is
\* terminal, returns its result or raises its failure
GetAlnResults ==
    /\ pc = "get_aln"
    /\ LET j == NextJobToWaitFor(aln_job_list, loop_i, jobs, got) IN
         /\ jobs[j].state \in {"completed", "failed"}
         /\ IF ~GetResultsRaises(jobs[j])
              THEN /\ new_alignment_list' = Append(new_alignment_list, jobs[j].result)
                   /\ got' = got \cup {j}
                   /\ IF GetLoopDone(loop_i, Len(aln_job_list))
                        THEN loop_i' = 1 /\ Goto("clear_running_aln")
                        ELSE loop_i' = loop_i + 1 /\ Goto("get_aln")
              ELSE /\ Raise("JobError")
                   /\ UNCHANGED <<new_alignment_list, got, loop_i>>
    /\ NoScopeChange
    /\ UNCHANGED <<cfgvars, multilocus_dataset, RunningJobs, jobvars, sigvars,
                   locals, first_done, workers_started>>

\* line 276
ClearRunningAln ==
    /\ pc = "clear_running_aln"
    /\ RunningJobs' = NoJobs
    /\ Goto("assign_alns")
    /\ NoScopeChange
    /\ UNCHANGED <<cfgvars, multilocus_dataset, jobvars, resvars, sigvars, locals,
                   first_done, workers_started>>

\* lines 277-278: multilocus_dataset[locus_index] = new_alignment
AssembleAlignments(ds, l) ==
    [i \in 1..Len(ds) |-> IF i <= Len(l) THEN l[i] ELSE ds[i]]

AssignAlns ==
    /\ pc = "assign_alns"
    /\ multilocus_dataset' = AssembleAlignments(multilocus_dataset, new_alignment_list)
    /\ Goto("remove_init_aln")
    /\ NoScopeChange
    /\ UNCHANGED <<cfgvars, RunningJobs, jobvars, resvars, sigvars, locals,
                   first_done, workers_started>>

\* the alignment temporaries following keeptemp alone, as the tree ones do
DeleteAlnTemps_keeptemp_only(o) == ~o.keeptemp

\* line 261
DeleteAlnTemps(o) == ~(o.keeptemp /\ o.keepalignmenttemps)

\* lines 279-280
RemoveInitAln ==
    /\ pc = "remove_init_aln"
    /\ IF DeleteAlnTemps(options) THEN RemoveScope("init_aln") ELSE NoScopeChange
    /\ Goto("create_tree_job")
    /\ UNCHANGED <<cfgvars, multilocus_dataset, RunningJobs, jobvars, resvars,
                   sigvars, locals, first_done, workers_started>>

\* --------------------------------------------------- InitialTreeSearch phase
\* lines 284-294
CreateTreeJob ==
    /\ pc = "create_tree_job"
    /\ CreateScope("init_tree")
    /\ jobs' = Append(jobs, NewJob("tree", NoResult))
    /\ job' = Len(jobs) + 1
    /\ Goto("set_running_tree")
    /\ UNCHANGED <<cfgvars, multilocus_dataset, RunningJobs, aln_job_list, jobq,
                   put_log, resvars, sigvars, locals, first_done, workers_started>>

\* line 295
SetRunningTree ==
    /\ pc = "set_running_tree"
    /\ RunningJobs' = SingleJob(job)
    /\ Goto("put_tree")
    /\ NoScopeChange
    /\ UNCHANGED <<cfgvars, multilocus_dataset, jobvars, resvars, sigvars, locals,
                   first_done, workers_started>>

\* line 296
PutTree ==
    /\ pc = "put_tree"
    /\ jobq' = Append(jobq, job)
    /\ put_log' = Append(put_log, job)
    /\ Goto("get_tree")
    /\ NoScopeChange
    /\ UNCHANGED <<cfgvars, multilocus_dataset, RunningJobs, jobs, aln_job_list,
                   job, resvars, sigvars, locals, first_done, workers_started>>

\* line 297: score, starting_tree_str = job.get_results()
GetTreeResults ==
    /\ pc = "get_tree"
    /\ jobs[job].state \in {"completed", "failed"}
    /\ IF ~GetResultsRaises(jobs[job])
         THEN /\ score' = jobs[job].result.score
              /\ starting_tree_str' = "inittree_tree"
              /\ got' = got \cup {job}
              /\ Goto("transform_score")
         ELSE /\ Raise("JobError")
              /\ UNCHANGED <<score, starting_tree_str, got>>
    /\ NoScopeChange
    /\ UNCHANGED <<cfgvars, multilocus_dataset, RunningJobs, jobvars,
                   new_alignment_list, loop_i, sigvars, man_weights, sate_job,
                   first_done, workers_started>>

\* TransformScore.__init__(self, msa, ml_score) binds exactly two arguments
TransformScoreAccepts(nargs) == nargs = TransformScoreInitArity

\* lines 298-300: bind man_weights, then TransformScore(multilocus_dataset,
\* score, man_weights).execute(); execute returns ml_score unchanged
TransformScoreStep ==
    /\ pc = "transform_score"
    /\ man_weights' = "bound"
    /\ IF TransformScoreAccepts(TransformScoreCallArgs)
         THEN Goto("clear_running_tree")
         ELSE Raise("TypeError")
    /\ NoScopeChange
    /\ UNCHANGED <<cfgvars, multilocus_dataset, RunningJobs, jobvars, resvars,
                   sigvars, score, starting_tree_str, sate_job, first_done,
                   workers_started>>

\* ------------------------------------------------------ teardown
\* line 428-431: the handler restored for a saved previous handler
RestoredHandler(prev) == IF prev = "None" THEN "SIG_DFL" ELSE prev

\* lines 425-431, one iteration of the loop over prev_signals
FinallyRestore ==
    /\ pc = "finally_restore"
    /\ LET el == prev_signals[sig_i] IN
         handlers' = [handlers EXCEPT ![el[1]] = RestoredHandler(el[2])]
    /\ IF sig_i = Len(prev_signals)
         THEN pc' = "rs_finally" /\ sig_i' = 1
         ELSE pc' = "finally_restore" /\ sig_i' = sig_i + 1
    /\ UNCHANGED <<exc, rs_result>>
    /\ NoScopeChange
    /\ UNCHANGED <<cfgvars, multilocus_dataset, RunningJobs, jobvars, resvars,
                   prev_signals, kill_called, handler_ran, locals, first_done,
                   workers_started>>

\* line 462
DeleteDir(o) == ~o.keeptemp

\* lines 473-479: the finally of run_sate_from_config, then its return value
\* or the exception leaving it
RsFinally ==
    /\ pc = "rs_finally"
    /\ IF DeleteDir(options) THEN RemoveScope("top") ELSE NoScopeChange
    /\ rs_result' = IF exc # "none" THEN "raised"
                    ELSE IF DeleteDir(options) THEN "None_None" ELSE "dir_temp_fs"
    /\ pc' = "terminated"
    /\ UNCHANGED <<exc, sig_i>>
    /\ UNCHANGED <<cfgvars, multilocus_dataset, RunningJobs, jobvars, resvars,
                   sigvars, locals, first_done, workers_started>>

\* ------------------------------------------------------ killed_handler
\* the handler without its else branch for a single Job
KillTargets_list_only(r) ==
    IF r.tag = "list" THEN Range(r.jobs) ELSE {}

\* a handler that kills every Job created, referenced or not
KillTargets_every_job(r) == 1..Len(jobs)

\* lines 134-143: the Jobs kill() is called on
KillTargets(r) ==
    IF r.tag = "None" \/ (r.tag = "list" /\ r.jobs = <<>>) THEN {}
    ELSE IF r.tag = "list" THEN Range(r.jobs)
    ELSE {r.jobs[1]}

\* a handler that kills and returns to the interrupted code: no sys.exit()
killed_handler_returns(sig) ==
    /\ pc # "terminated"
    /\ handlers[sig] = "killed_handler"
    /\ LET targets == KillTargets(RunningJobs) IN
         /\ jobs' = [i \in 1..Len(jobs) |->
                       IF i \in targets THEN KillJob(jobs[i]) ELSE jobs[i]]
         /\ jobq' = SelectSeq2(jobq, {i \in 1..Len(jobs) : i \notin targets})
         /\ kill_called' = kill_called \cup targets
    /\ handler_ran' = TRUE
    /\ Goto(pc)
    /\ NoScopeChange
    /\ UNCHANGED <<cfgvars, multilocus_dataset, RunningJobs, aln_job_list, job,
                   put_log, resvars, handlers, prev_signals, locals, first_done,
                   workers_started>>

\* lines 132-146: a signal whose installed handler is killed_handler is
\* delivered to the control thread; sys.exit() raises SystemExit where the
\* control thread stands
killed_handler(sig) ==
    /\ pc # "terminated"
    /\ handlers[sig] = "killed_handler"
    /\ LET targets == KillTargets(RunningJobs) IN
         /\ jobs' = [i \in 1..Len(jobs) |->
                       IF i \in targets THEN KillJob(jobs[i]) ELSE jobs[i]]
         /\ jobq' = SelectSeq2(jobq, {i \in 1..Len(jobs) : i \notin targets})
         /\ kill_called' = kill_called \cup targets
    /\ handler_ran' = TRUE
    /\ Raise("SystemExit")
    /\ NoScopeChange
    /\ UNCHANGED <<cfgvars, multilocus_dataset, RunningJobs, aln_job_list, job,
                   put_log, resvars, handlers, prev_signals, locals, first_done,
                   workers_started>>

\* ------------------------------------------------------ worker pool
NumRunning == Cardinality({i \in 1..Len(jobs) : jobs[i].state = "running"})

\* a free worker takes the head of the queue
WorkerStart ==
    /\ pc # "terminated"
    /\ jobq # <<>>
    /\ NumRunning < workers_started
    /\ jobs' = [jobs EXCEPT ![Head(jobq)].state = "running"]
    /\ jobq' = Tail(jobq)
    /\ NoScopeChange
    /\ UNCHANGED <<cfgvars, multilocus_dataset, pc, exc, sig_i, rs_result,
                   RunningJobs, aln_job_list, job, put_log, resvars, sigvars,
                   locals, first_done, workers_started>>

\* the external tool of Job j ends: its output, or a failure
JobOutput(jr, s) == IF jr.kind = "align" THEN AlignerResult(jr.input) ELSE TreeResult(s)

WorkerFinish(j, ok, s) ==
    /\ pc # "terminated"
    /\ j \in 1..Len(jobs)
    /\ jobs[j].state = "running"
    /\ jobs[j].kind = "align" => s = 1
    /\ ok = FALSE => s = 1
    /\ jobs' = [jobs EXCEPT ![j].state = IF ok THEN "completed" ELSE "failed",
                            ![j].result = IF ok THEN JobOutput(jobs[j], s) ELSE NoResult]
    /\ first_done' = IF first_done = 0 THEN j ELSE first_done
    /\ NoScopeChange
    /\ UNCHANGED <<cfgvars, multilocus_dataset, pc, exc, sig_i, rs_result,
                   RunningJobs, aln_job_list, job, jobq, put_log, resvars, sigvars,
                   locals, workers_started>>

Next ==
    \/ SmReadConfigFiles
    \/ SmAutoDefaults
    \/ SmCheckRaxml
    \/ SmExportConfig
    \/ SmReadInput
    \/ RsCreateTop
    \/ FsePrologue
    \/ StartWorker
    \/ InstallHandler
    \/ TryBranch
    \/ ComposeNewick
    \/ ConfigDict
    \/ CreateAlnJobs
    \/ SetRunningAln
    \/ PutAln
    \/ GetAlnResults
    \/ ClearRunningAln
    \/ AssignAlns
    \/ RemoveInitAln
    \/ CreateTreeJob
    \/ SetRunningTree
    \/ PutTree
    \/ GetTreeResults
    \/ TransformScoreStep
    \/ FinallyRestore
    \/ RsFinally
    \/ \E sig \in Signals : killed_handler(sig)
    \/ WorkerStart
    \/ \E j \in 1..(MaxLoci + 1), ok \in BOOLEAN, s \in Scores : WorkerFinish(j, ok, s)

Spec == Init /\ [][Next]_vars


\* ------------------------------------------------------------ properties
PutCount(kind) ==
    Cardinality({k \in 1..Len(put_log) : jobs[put_log[k]].kind = kind})

\* options.aligned has its final value (line 234 executed)
PastPrologue ==
    /\ pc \notin SateMainBody \cup {"rs_create_top", "fse_prologue"}
    /\ tree_file \in {"ok", "None"}

\* finish_sate_execution was entered and has exited
FseExited == pc \in {"rs_finally", "terminated"}

\* the InitialAlignment results were assigned into the dataset (lines 277-278)
AlnAssigned == \E i \in 1..Len(multilocus_dataset) : multilocus_dataset[i].src = "initalign"

\* put on the queue, get_results() not yet returned to the controller
InFlight(j) == j \in Range(put_log) /\ j \notin got

TwoPhaseScenario ==
    PastPrologue /\ options.aligned /\ options.treefile /\ options.two_phase

\* C1, as stated: with aligned input, a starting tree and two_phase, no
\* alignment Job is ever put on the queue, SateJob.run is never invoked, and
\* the run ends with the supplied tree.
C1_Original ==
    TwoPhaseScenario =>
        /\ PutCount("align") = 0
        /\ sate_job # "run"
        /\ (pc = "terminated" /\ ~handler_ran) => starting_tree_str = "supplied_tree"

\* C1, amended: with aligned input, a starting tree and two_phase, SateJob.run
\* is never invoked and the supplied tree is never used; the tree-search Job
\* is put on the queue only after one alignment Job per locus was put.
C1_TwoPhaseAlignsAndNeverRefines ==
    TwoPhaseScenario =>
        /\ sate_job = "none"
        /\ starting_tree_str # "supplied_tree"
        /\ PutCount("tree") > 0 => PutCount("align") = Len(multilocus_dataset)

C1_Witness ==
    /\ TwoPhaseScenario
    /\ Len(multilocus_dataset) >= 2
    /\ PutCount("align") = Len(multilocus_dataset)
    /\ PutCount("tree") = 1
    /\ pc = "terminated"
    /\ ~handler_ran

\* C2: with a starting tree and without two_phase, no InitialAlignment and no
\* InitialTreeSearch Job is submitted, and every run that no signal
\* interrupts reaches SateJob.run.
C2_StartingTreeReachesRefining ==
    (PastPrologue /\ UseStartingTree(options)) =>
        /\ put_log = <<>>
        /\ (pc = "terminated" /\ ~handler_ran) => sate_job = "run"

\* C3: with no starting tree and unaligned input of N loci, the Jobs put on
\* the queue are, in this order, the N alignment Jobs of loci 1..N and then
\* one tree-search Job, nothing else; all N are on the queue once the put
\* loop is left, and SateJob.run does not start before all N + 1 were put.
AfterPutLoop ==
    pc \in {"get_aln", "clear_running_aln", "assign_alns", "remove_init_aln",
            "create_tree_job", "set_running_tree", "put_tree", "get_tree",
            "transform_score"}

C3_SubmissionOrder ==
    (PastPrologue /\ ~options.treefile /\ ~options.aligned) =>
        LET n == Len(multilocus_dataset) IN
        /\ Len(put_log) <= n + 1
        /\ \A k \in 1..Len(put_log) :
             IF k <= n
               THEN jobs[put_log[k]].kind = "align" /\ jobs[put_log[k]].input.locus = k
               ELSE jobs[put_log[k]].kind = "tree"
        /\ AfterPutLoop => Len(put_log) >= n
        /\ sate_job = "run" => Len(put_log) = n + 1

C3_Witness ==
    /\ PastPrologue /\ ~options.treefile /\ ~options.aligned
    /\ Len(multilocus_dataset) = 3
    /\ PutCount("align") = 3
    /\ PutCount("tree") = 1
    /\ Len(put_log) = 4

\* C4: no alignment result is consumed (the dataset is not modified, init_aln
\* is not removed by the phase, the tree-search Job is not submitted) before
\* get_results() has returned for every alignment Job.
C4_JoinBeforeConsume ==
    (AlnAssigned \/ remove_calls["init_aln"] > 0 \/ PutCount("tree") > 0) =>
        \A j \in Range(aln_job_list) : j \in got

C4_Witness ==
    /\ Len(aln_job_list) >= 2
    /\ first_done \in Range(aln_job_list) \ {aln_job_list[1]}
    /\ AlnAssigned
    /\ remove_calls["init_aln"] > 0
    /\ PutCount("tree") > 0

\* C5: once the InitialAlignment results are assigned, locus i of the dataset
\* holds the result of the Job created from locus i, whatever the order in
\* which the workers finished the Jobs.
C5_ResultsKeepTheirLocus ==
    AlnAssigned =>
        \A i \in 1..Len(multilocus_dataset) :
            /\ jobs[aln_job_list[i]].input.locus = i
            /\ multilocus_dataset[i] = jobs[aln_job_list[i]].result
            /\ multilocus_dataset[i].locus = i

C5_Witness ==
    /\ AlnAssigned
    /\ Len(multilocus_dataset) >= 2
    /\ first_done = aln_job_list[Len(aln_job_list)]

\* C6: once killed_handler has run, kill() was called on exactly the Jobs
\* _RunningJobs refers to (all of a list, the single Job, none when unset),
\* none of them is pending or running any more, and the control thread does
\* nothing but unwind with SystemExit, never blocked, until the program has
\* ended.
C6_HandlerKillsAndExits ==
    handler_ran =>
        /\ kill_called = Referenced(RunningJobs)
        /\ \A j \in kill_called : jobs[j].state \notin {"pending", "running"}
        /\ exc = "SystemExit"
        /\ pc \in {"finally_restore", "rs_finally", "terminated"}
        /\ pc # "terminated" => ENABLED (FinallyRestore \/ RsFinally)

C6_Witness ==
    /\ handler_ran
    /\ RunningJobs.tag = "list"
    /\ Cardinality(kill_called) >= 2
    /\ \E j \in kill_called : jobs[j].state = "killed"
    /\ pc = "terminated"

C8_ReferenceClearedOnExit ==
    (FseExited /\ ~handler_ran) => RunningJobs = NoJobs

\* C9: on every exit from finish_sate_execution each signal handler saved at
\* installation is back in place (SIG_DFL for a saved None) and
\* killed_handler is installed for no signal.
C9_HandlersRestoredOnExit ==
    FseExited =>
        /\ \A s \in Signals : handlers[s] # "killed_handler"
        /\ \A k \in 1..Len(prev_signals) :
             handlers[prev_signals[k][1]] = RestoredHandler(prev_signals[k][2])


\* the control thread is unwinding or has ended
Unwinding == pc \in {"finally_restore", "rs_finally", "terminated"}

\* the InitialAlignment phase is over, line 280 included
AlnPhaseOver == aln_job_list # <<>> /\ (pc = "create_tree_job" \/ job # 0)

C12_ScopesRemovedOnFailure ==
    /\ \A d \in Scopes : remove_calls[d] <= 1
    /\ (pc = "terminated" /\ exc = "JobError") =>
         /\ ("init_aln" \in dirs_created /\ DeleteAlnTemps(options)) =>
                "init_aln" \notin dirs_existing
         /\ ("init_tree" \in dirs_created /\ ~options.keeptemp) =>
                "init_tree" \notin dirs_existing

\* C19: the tree-search Job is submitted only when every InitialAlignment
\* Job completed; once a failure of a Job was raised to the controller it
\* only unwinds, submits nothing more and constructs no SateJob; and no
\* SateJob exists while a submitted Job has failed.
C19_JobFailureIsFatal ==
    /\ PutCount("tree") > 0 =>
         \A j \in Range(aln_job_list) : jobs[j].state = "completed"
    /\ exc = "JobError" =>
         /\ Unwinding
         /\ \E j \in Range(put_log) : jobs[j].state = "failed" /\ j \notin got
         /\ (\E j \in Range(aln_job_list) : j \notin got) => PutCount("tree") = 0
    /\ (\E j \in Range(put_log) : jobs[j].state = "failed") => sate_job = "none"

C19_Witness ==
    /\ exc = "JobError"
    /\ pc = "terminated"
    /\ Len(aln_job_list) >= 2
    /\ jobs[aln_job_list[1]].state = "completed"
    /\ jobs[aln_job_list[2]].state = "failed"
    /\ PutCount("tree") = 0

\* the input as read: no locus was realigned yet and every locus is aligned
InputFullyAligned ==
    \A i \in 1..Len(multilocus_dataset) :
        multilocus_dataset[i].src = "input" /\ multilocus_dataset[i].aligned

NoWorkSubmitted ==
    /\ workers_started = -1
    /\ jobs = <<>>
    /\ jobq = <<>>
    /\ put_log = <<>>

\* C17: with raxml_search_after set and a tree estimator other than FastTree
\* (once --auto, which replaces the estimator, is out of the way) sate_main
\* never gets past the check of lines 591-593: it ends there with an error,
\* no worker was started, no temp scope created and no Job created or put.
C17_RaxmlAfterNeedsFastTree ==
    (/\ user_config.raxml_search_after
     /\ Upper(user_config.tree_estimator) # "FASTTREE"
     /\ ~user_config.auto) =>
        /\ pc \in {"sm_config_files", "sm_auto", "sm_check_raxml", "terminated"}
        /\ pc = "terminated" => exc \in {"Exception", "InputReadError", "SystemExit"}
        /\ NoWorkSubmitted
        /\ dirs_created = {}
        /\ rs_result = "pending"

C17_Witness ==
    /\ user_config.raxml_search_after
    /\ user_config.tree_estimator = "RAxML"
    /\ ~user_config.auto
    /\ user_config.input = "given"
    /\ settings_file = "ok"
    /\ pc = "terminated"
    /\ exc = "SystemExit"

\* an input error was met: a settings file missing or not parsable, no input
\* named, the input not readable, or a tree file missing, unreadable,
\* malformed or naming a taxon the sequence data lacks
InputErrorMet ==
    \/ settings_file \in {"missing", "invalid"}
    \/ user_config.input = "None"
    \/ exc = "InputReadError"
    \/ tree_file \in TreeFileStates \ {"ok"}

\* C18: once an input error is met the run only ends: no worker was or is
\* started and no Job was or is put on the queue.
C18_InputErrorsBeforeAnyWork ==
    InputErrorMet =>
        /\ NoWorkSubmitted
        /\ pc \in SateMainBody \cup {"rs_finally", "terminated"}
        /\ (settings_file \in {"missing", "invalid"} \/ tree_file \in TreeFileStates \ {"ok"})
              => exc # "none"

C18_Witness ==
    /\ options.treefile
    /\ tree_file = "name_mismatch"
    /\ exc = "KeyError"
    /\ "top" \in dirs_created
    /\ workers_started = -1
    /\ pc = "terminated"


\* C21: once the result of the InitialTreeSearch Job was taken, the phase goes
\* on without error: the transformed score is the Job's score unchanged and
\* no exception is raised unless a signal arrived.
C21_TransformScoreCompletes ==
    (job # 0 /\ job \in got /\ pc # "transform_score" /\ ~handler_ran) =>
        /\ exc = "none"
        /\ score = jobs[job].result.score

\* a Job is on the queue or a worker is running it
QueuedOrRunning ==
    jobq # <<>> \/ \E j \in 1..Len(jobs) : jobs[j].state = "running"

HandlersInstalled == \A sig \in Signals : handlers[sig] = "killed_handler"

\* C24: whenever the signal arrives relative to the setting and clearing of
\* _RunningJobs, kill() is called only on Jobs the reference names, a Job
\* whose result was already taken is left as it is, the only exception the
\* handler raises is SystemExit, and the control thread then only unwinds,
\* never blocked; with the reference unset nothing is killed and the
\* program still exits.
C24_HandlerToleratesRace ==
    /\ kill_called \subseteq Referenced(RunningJobs)
    /\ \A j \in kill_called : j \in got => jobs[j].state = "completed"
    /\ handler_ran =>
         /\ exc = "SystemExit"
         /\ Unwinding
         /\ pc # "terminated" => ENABLED (FinallyRestore \/ RsFinally)
         /\ Referenced(RunningJobs) = {} => kill_called = {}

\* the signal arrived after every get_results() of the alignment phase had
\* returned and before the reference was cleared
C24_Witness ==
    /\ handler_ran
    /\ RunningJobs.tag = "list"
    /\ kill_called # {}
    /\ \A j \in kill_called : j \in got /\ jobs[j].state = "completed"
    /\ job = 0
    /\ pc = "terminated"

\* C25: a step taken after killed_handler has run puts no Job on the queue,
\* creates no Job, takes no result, changes neither the score, the tree nor
\* the dataset, constructs no SateJob and leaves the control thread unwinding.
C25_CancellationWins ==
    [][handler_ran =>
          /\ put_log' = put_log
          /\ Len(jobs') = Len(jobs)
          /\ got' = got
          /\ new_alignment_list' = new_alignment_list
          /\ multilocus_dataset' = multilocus_dataset
          /\ score' = score
          /\ starting_tree_str' = starting_tree_str
          /\ sate_job' = sate_job
          /\ pc' \in {"finally_restore", "rs_finally", "terminated"}]_vars

\* the tree-search Job had completed and get_results() was about to return
\* when the signal arrived: its result was never taken
C25_Witness ==
    /\ handler_ran
    /\ job # 0
    /\ jobs[job].state = "completed"
    /\ job \notin got
    /\ score \in {"unset", "None"}
    /\ pc = "terminated"

\* C26, as stated: in no reachable state is a Job queued or running while
\* the workers are not started or killed_handler is not installed for the
\* three signals.
C26_Original ==
    QueuedOrRunning => (workers_started # -1 /\ HandlersInstalled)

\* C26, amended: before the first Job is put the workers were started and
\* the three handlers installed; while the control thread is in the try body
\* a queued or running Job finds the three handlers installed.
C26_WorkersAndHandlersBeforePut ==
    /\ (jobs # <<>> \/ put_log # <<>>) =>
          /\ workers_started # -1
          /\ Len(prev_signals) = Len(SigOrder)
          /\ \A sig \in Signals : \E k \in 1..Len(prev_signals) : prev_signals[k][1] = sig
    /\ pc \in TryBody => (workers_started # -1 /\ HandlersInstalled)

C26_Witness ==
    /\ pc = "get_aln"
    /\ jobq # <<>>
    /\ \E j \in 1..Len(jobs) : jobs[j].state = "running"
    /\ HandlersInstalled
    /\ workers_started >= 1


\* C23: run_sate_from_config returns (None, None) exactly when keeptemp is
\* off and the top-level directory was removed, returns (dir, temp_fs) with
\* the directory still there otherwise, and when finish_sate_execution
\* raised the program ends with the top-level directory removed if keeptemp
\* is off.
C23_ReturnValueAndCleanup ==
    /\ rs_result = "None_None" => (~options.keeptemp /\ "top" \notin dirs_existing)
    /\ rs_result = "dir_temp_fs" => (options.keeptemp /\ "top" \in dirs_existing)
    /\ (pc = "terminated" /\ "top" \in dirs_created /\ ~options.keeptemp) =>
          "top" \notin dirs_existing


\* C22: start_worker is called with the configured number of CPUs, and that
\* number is never less than 1.
C22_AtLeastOneWorker ==
    workers_started # -1 => (workers_started = num_cpus /\ workers_started >= 1)

====
